---- MODULE Spec2Model ----
(***************************************************************************)
(* One run of get_subscribers_for_component.py: the command-line entry     *)
(* (or a direct call of main), the optional name -> id resolution, the     *)
(* subscribers request, the client-side filter, the two exporters and the  *)
(* reporting, with the Statuspage service and the file system as the       *)
(* environment.                                                            *)
(***************************************************************************)
EXTENDS Integers, Sequences, FiniteSets, TLC

\* ------------------------------------------------------------- bounds
MaxSubscribers == 3   \* subscribers the service holds
MaxPageSize == 3      \* subscribers the service puts on one page
MaxComponents == 2    \* components the service lists

\* ------------------------------------------------------ Python values
\* None where a str is expected (ids, paths, field values).
None == "<None>"
\* Component names are sequences of code points, so that str.lower() is
\* computed; None for a name is a sequence holding no code point.
NoneName == <<-1>>

Truthy(v) == v # None /\ v # ""
TruthyName(n) == n # NoneName /\ n # <<>>

\* str.lower() on ASCII: 'A'..'Z' (65..90) move to 'a'..'z' (+32).
Lower(s) == [i \in 1..Len(s) |-> IF s[i] >= 65 /\ s[i] <= 90 THEN s[i] + 32 ELSE s[i]]

Range(s) == {s[i] : i \in DOMAIN s}
SeqsUpTo(S, n) == UNION {[1..k -> S] : k \in 0..n}

\* dict.get(key): the value, or None when the key is absent.
Get(d, key) == IF key \in DOMAIN d THEN d[key] ELSE None

SUBSCRIBER_FIELDS_TO_PRINT == <<"id", "email", "created_at", "mode", "phone_number">>

\* -------------------------------------------------------- environment
\* "API", "api", "Web"
ComponentNames == {<<65, 80, 73>>, <<97, 112, 105>>, <<87, 101, 98>>}
\* None, "", "api", "API", "WEB"
QueryNames == {NoneName, <<>>, <<97, 112, 105>>, <<65, 80, 73>>, <<87, 69, 66>>}
ComponentIds == {"c1", "c2"}
QueryIds == {None, "", "c1", "c2"}
ComponentUniverse == {[id |-> i, name |-> n] : i \in ComponentIds, n \in ComponentNames}
ComponentLists == SeqsUpTo(ComponentUniverse, MaxComponents)

\* Subscribers as the service returns them: some fields missing, one null,
\* one field the script does not keep, `components` absent, empty, without
\* the target, with it once and with it twice.
SubscriberUniverse ==
    { [id |-> "s1", email |-> "a@x.com", components |-> <<"c1">>],
      [id |-> "s2", email |-> "b@x.com", created_at |-> "2024-01-01", mode |-> "email",
       phone_number |-> "555", quarantined_at |-> "never",
       components |-> <<"c2", "c1", "c1">>],
      [id |-> "s3", email |-> "c@x.com", mode |-> "email"],
      [id |-> "s4", email |-> None, mode |-> "sms", phone_number |-> "556",
       components |-> <<"c2">>],
      [id |-> "s5", components |-> <<>>] }
SubscriberLists == SeqsUpTo(SubscriberUniverse, MaxSubscribers)

StatusCodes == {200, 201, 404, 500}
ErrorTexts == {"", "denied"}
Paths == {None, "out"}
Outcomes == {"ok", "open_fails", "write_fails"}

\* A request sent without a `page` parameter; a request that got no response.
NoPage == -1
NoResponse == 0

\* The service's subscribers cut into pages of page_size, in order.
Paginate(subs, page_size) ==
    [n \in 1..((Len(subs) + page_size - 1) \div page_size) |->
        SubSeq(subs, (n - 1) * page_size + 1,
               IF n * page_size < Len(subs) THEN n * page_size ELSE Len(subs))]

\* What the service answers to GET subscribers: page `page` (zero-based), the
\* first page when the parameter is absent, an empty array past the last page.
ServePage(pages, page) ==
    LET n == IF page = NoPage THEN 1 ELSE page + 1
    IN IF n \in DOMAIN pages THEN pages[n] ELSE <<>>

\* ------------------------------------------------------ pure functions
IsFailure_Only4xx5xx(status_code) == status_code >= 400
IsFailure_Never(status_code) == FALSE
\* `if response.status_code != 200: raise`
IsFailure(status_code) == status_code # 200

RECURSIVE FindComponentFrom(_, _, _)
FindComponentFrom(comps, i, name) ==
    IF i > Len(comps) THEN 0
    ELSE IF Lower(comps[i].name) = Lower(name) THEN i
    ELSE FindComponentFrom(comps, i + 1, name)

RECURSIVE FindComponentCaseSensitiveFrom(_, _, _)
FindComponentCaseSensitiveFrom(comps, i, name) ==
    IF i > Len(comps) THEN 0
    ELSE IF comps[i].name = name THEN i
    ELSE FindComponentCaseSensitiveFrom(comps, i + 1, name)

FindComponent_CaseSensitive(comps, name) == FindComponentCaseSensitiveFrom(comps, 1, name)
\* The scan of get_component_id_from_name: the index of the first component
\* whose lowered name equals the lowered query, 0 when the loop falls through.
FindComponent(comps, name) == FindComponentFrom(comps, 1, name)

\* `for cid in subscriber["components"]: if cid == component_id: ... break`:
\* how many records the inner loop appends for one subscriber.
RECURSIVE AppendsFrom(_, _, _, _)
AppendsFrom(cids, i, cid, break) ==
    IF i > Len(cids) THEN 0
    ELSE IF cids[i] = cid
         THEN IF break THEN 1 ELSE 1 + AppendsFrom(cids, i + 1, cid, break)
         ELSE AppendsFrom(cids, i + 1, cid, break)

ProjectSubscriber_PresentOnly(subscriber) ==
    [f \in Range(SUBSCRIBER_FIELDS_TO_PRINT) \cap DOMAIN subscriber |-> subscriber[f]]
\* `{field: subscriber.get(field) for field in SUBSCRIBER_FIELDS_TO_PRINT}`
ProjectSubscriber(subscriber) ==
    [f \in Range(SUBSCRIBER_FIELDS_TO_PRINT) |-> Get(subscriber, f)]

Repeat(x, n) == [k \in 1..n |-> x]

RECURSIVE FilterFrom(_, _, _, _)
FilterFrom(subs, i, cid, break) ==
    IF i > Len(subs) THEN <<>>
    ELSE (IF "components" \in DOMAIN subs[i]
          THEN Repeat(ProjectSubscriber(subs[i]),
                      AppendsFrom(subs[i].components, 1, cid, break))
          ELSE <<>>) \o FilterFrom(subs, i + 1, cid, break)

FilterSubscribers_NoBreak(subs, cid) == FilterFrom(subs, 1, cid, FALSE)
\* The loop of get_subscribers_for_component over response.json().
FilterSubscribers(subs, cid) == FilterFrom(subs, 1, cid, TRUE)

\* csv.DictWriter: the header, then one row per record, None written as "".
CsvRow(rec) ==
    [i \in DOMAIN SUBSCRIBER_FIELDS_TO_PRINT |->
        IF rec[SUBSCRIBER_FIELDS_TO_PRINT[i]] = None THEN ""
        ELSE rec[SUBSCRIBER_FIELDS_TO_PRINT[i]]]
CsvContent(recs) == <<SUBSCRIBER_FIELDS_TO_PRINT>> \o [k \in DOMAIN recs |-> CsvRow(recs[k])]
\* json.dump(subscribers, indent=4): the array of records, parsed back.
JsonContent(recs) == recs

NeedsResolution_IgnoresId(name, id) == TruthyName(name)
\* `if component_name and not component_id`
NeedsResolution(name, id) == TruthyName(name) /\ ~Truthy(id)

ExceptionClasses == {"Exception", "ValueError", "ConnectionError", "OSError"}
Catches_OwnErrorsOnly(kind) == kind \in {"Exception", "ValueError"}
\* `except Exception as e`
Catches(kind) == kind \in ExceptionClasses

\* -------------------------------------------------------------- state
VARIABLES
    pc,              \* where the run is
    entry,           \* "cli" (the __main__ block) or "call" (main called directly)
    args,            \* the arguments as supplied
    component_name, component_id, out_csv, out_json,   \* main's parameters
    components,      \* get_component_id_from_name: response.json()
    fetched,         \* get_subscribers_for_component: response.json()
    served,          \* the pages the service held when subscribers were requested
    target,          \* get_subscribers_for_component: its component_id parameter
    retval,          \* the value a function returned, before main assigns it
    subscribers,     \* main: the filtered records
    requests,        \* every HTTP request issued, with the response's status and text
    files,           \* the two output files
    log,             \* log entries
    exc              \* the exception raised in the run, if any

vars == <<pc, entry, args, component_name, component_id, out_csv, out_json, components,
          fetched, served, target, retval, subscribers, requests, files, log, exc>>

NoExc == [kind |-> "none", origin |-> "", what |-> "", status |-> NoResponse, text |-> ""]
NoFile == [state |-> "absent", content |-> <<>>]

ArgSpace == [component_name : QueryNames, component_id : QueryIds,
             out_csv : Paths, out_json : Paths]

Info(function, message) == [level |-> "info", function |-> function, message |-> message]

\* main's precondition, kept by its callers: a name or an id is supplied.
Supplied(a) == TruthyName(a.component_name) \/ Truthy(a.component_id)

Init ==
    /\ entry \in {"cli", "call"}
    /\ args \in ArgSpace
    /\ entry = "call" => Supplied(args)
    /\ pc = IF entry = "cli" THEN "cli" ELSE "main"
    /\ component_name = IF entry = "cli" THEN NoneName ELSE args.component_name
    /\ component_id = IF entry = "cli" THEN None ELSE args.component_id
    /\ out_csv = IF entry = "cli" THEN None ELSE args.out_csv
    /\ out_json = IF entry = "cli" THEN None ELSE args.out_json
    /\ components = <<>>
    /\ fetched = <<>>
    /\ served = <<>>
    /\ target = None
    /\ retval = None
    /\ subscribers = <<>>
    /\ requests = <<>>
    /\ files = [csv |-> NoFile, json |-> NoFile]
    /\ log = <<>>
    /\ exc = NoExc

\* `raise` inside main's try block: control goes to the except clause.
Raise(kind, origin, what, status, text) ==
    /\ exc' = [kind |-> kind, origin |-> origin, what |-> what, status |-> status, text |-> text]
    /\ pc' = "except"

\* The __main__ block after parse_args.
Dispatch ==
    /\ pc = "cli"
    /\ IF ~TruthyName(args.component_name) /\ ~Truthy(args.component_id)
       THEN /\ pc' = "usage_error"
            /\ UNCHANGED <<component_name, component_id, out_csv, out_json>>
       ELSE /\ pc' = "main"
            /\ out_csv' = args.out_csv
            /\ out_json' = args.out_json
            /\ IF Truthy(args.component_id)
               THEN component_id' = args.component_id /\ component_name' = NoneName
               ELSE component_name' = args.component_name /\ component_id' = None
    /\ UNCHANGED <<entry, args, components, fetched, served, target, retval, subscribers,
                   requests, files, log, exc>>

\* main: the entry log line and the test that guards the resolution.
MainEnter ==
    /\ pc = "main"
    /\ log' = Append(log, Info("main", "start"))
    /\ pc' = IF NeedsResolution(component_name, component_id) THEN "resolve" ELSE "fetch"
    /\ UNCHANGED <<entry, args, component_name, component_id, out_csv, out_json, components,
                   fetched, served, target, retval, subscribers, requests, files, exc>>

\* get_component_id_from_name(component_name), up to its return or raise.
GetComponentIdFromName ==
    /\ pc = "resolve"
    /\ \/ /\ requests' = Append(requests, [resource |-> "components", page |-> NoPage,
                                            status |-> NoResponse, text |-> ""])
          /\ Raise("ConnectionError", "get_component_id_from_name", "connection",
                   NoResponse, "")
          /\ log' = Append(log, Info("get_component_id_from_name", "start"))
          /\ UNCHANGED <<components, retval>>
       \/ \E status \in StatusCodes, text \in ErrorTexts, body \in ComponentLists :
            IF IsFailure(status)
            THEN /\ requests' = Append(requests, [resource |-> "components", page |-> NoPage,
                                                   status |-> status, text |-> text])
                 /\ Raise("Exception", "get_component_id_from_name", "http", status, text)
                 /\ log' = Append(log, Info("get_component_id_from_name", "start"))
                 /\ UNCHANGED <<components, retval>>
            ELSE /\ requests' = Append(requests, [resource |-> "components", page |-> NoPage,
                                                   status |-> status, text |-> "json"])
                 /\ components' = body
                 /\ log' = Append(log, Info("get_component_id_from_name", "start"))
                 /\ LET i == FindComponent(body, component_name)
                    IN IF i = 0
                       THEN /\ Raise("ValueError", "get_component_id_from_name",
                                     "not_found", NoResponse, "")
                            /\ UNCHANGED retval
                       ELSE /\ retval' = body[i].id
                            /\ pc' = "resolve_ret"
                            /\ UNCHANGED exc
    /\ UNCHANGED <<entry, args, component_name, component_id, out_csv, out_json, fetched,
                   served, target, subscribers, files>>

\* main: `component_id = get_component_id_from_name(component_name)`.
AssignComponentId ==
    /\ pc = "resolve_ret"
    /\ component_id' = retval
    /\ components' = <<>>
    /\ retval' = None
    /\ pc' = "fetch"
    /\ UNCHANGED <<entry, args, component_name, out_csv, out_json, fetched, served, target,
                   subscribers, requests, files, log, exc>>

\* get_subscribers_for_component(component_id), up to its return or raise.
GetSubscribersForComponent ==
    /\ pc = "fetch"
    /\ target' = component_id
    /\ \/ /\ requests' = Append(requests, [resource |-> "subscribers", page |-> NoPage,
                                            status |-> NoResponse, text |-> ""])
          /\ Raise("ConnectionError", "get_subscribers_for_component", "connection",
                   NoResponse, "")
          /\ log' = Append(log, Info("get_subscribers_for_component", "start"))
          /\ UNCHANGED <<fetched, served, retval>>
       \/ \E status \in StatusCodes, text \in ErrorTexts,
             subs \in SubscriberLists, page_size \in 1..MaxPageSize :
            IF IsFailure(status)
            THEN /\ requests' = Append(requests, [resource |-> "subscribers", page |-> NoPage,
                                                   status |-> status, text |-> text])
                 /\ Raise("Exception", "get_subscribers_for_component", "http", status, text)
                 /\ log' = Append(log, Info("get_subscribers_for_component", "start"))
                 /\ UNCHANGED <<fetched, served, retval>>
            ELSE /\ requests' = Append(requests, [resource |-> "subscribers", page |-> NoPage,
                                                   status |-> status, text |-> "json"])
                 /\ served' = Paginate(subs, page_size)
                 /\ fetched' = ServePage(Paginate(subs, page_size), NoPage)
                 /\ retval' = FilterSubscribers(fetched', component_id)
                 /\ log' = log \o <<Info("get_subscribers_for_component", "start"),
                                    Info("get_subscribers_for_component", "count")>>
                 /\ pc' = "fetch_ret"
                 /\ UNCHANGED exc
    /\ UNCHANGED <<entry, args, component_name, component_id, out_csv, out_json, components,
                   subscribers, files>>

\* main: `subscribers = get_subscribers_for_component(component_id)`.
AssignSubscribers ==
    /\ pc = "fetch_ret"
    /\ subscribers' = retval
    /\ fetched' = <<>>
    /\ served' = <<>>
    /\ retval' = None
    /\ pc' = "csv"
    /\ UNCHANGED <<entry, args, component_name, component_id, out_csv, out_json, components,
                   target, requests, files, log, exc>>

WriteCsv_ContinuesAfterError ==
    /\ pc = "csv"
    /\ IF ~Truthy(out_csv)
       THEN /\ pc' = "json"
            /\ UNCHANGED <<files, log, exc>>
       ELSE \E outcome \in Outcomes :
              CASE outcome = "ok" ->
                     /\ files' = [files EXCEPT !.csv = [state |-> "complete",
                                                        content |-> CsvContent(subscribers)]]
                     /\ log' = Append(log, Info("main", "csv_saved"))
                     /\ pc' = "json"
                     /\ UNCHANGED exc
                [] outcome = "open_fails" ->
                     /\ pc' = "json"
                     /\ UNCHANGED <<files, log, exc>>
                [] outcome = "write_fails" ->
                     /\ files' = [files EXCEPT !.csv = [state |-> "partial", content |-> <<>>]]
                     /\ pc' = "json"
                     /\ UNCHANGED <<log, exc>>
    /\ UNCHANGED <<entry, args, component_name, component_id, out_csv, out_json, components,
                   fetched, served, target, retval, subscribers, requests>>

\* main: the `if out_csv:` block.
WriteCsv ==
    /\ pc = "csv"
    /\ IF ~Truthy(out_csv)
       THEN /\ pc' = "json"
            /\ UNCHANGED <<files, log, exc>>
       ELSE \E outcome \in Outcomes :
              CASE outcome = "ok" ->
                     /\ files' = [files EXCEPT !.csv = [state |-> "complete",
                                                        content |-> CsvContent(subscribers)]]
                     /\ log' = Append(log, Info("main", "csv_saved"))
                     /\ pc' = "json"
                     /\ UNCHANGED exc
                [] outcome = "open_fails" ->
                     /\ Raise("OSError", "main", "csv_io", NoResponse, "")
                     /\ UNCHANGED <<files, log>>
                [] outcome = "write_fails" ->
                     /\ files' = [files EXCEPT !.csv = [state |-> "partial", content |-> <<>>]]
                     /\ Raise("OSError", "main", "csv_io", NoResponse, "")
                     /\ UNCHANGED log
    /\ UNCHANGED <<entry, args, component_name, component_id, out_csv, out_json, components,
                   fetched, served, target, retval, subscribers, requests>>

\* main: the `if out_json:` block.
WriteJson ==
    /\ pc = "json"
    /\ IF ~Truthy(out_json)
       THEN /\ pc' = "report"
            /\ UNCHANGED <<files, log, exc>>
       ELSE \E outcome \in Outcomes :
              CASE outcome = "ok" ->
                     /\ files' = [files EXCEPT !.json = [state |-> "complete",
                                                         content |-> JsonContent(subscribers)]]
                     /\ log' = Append(log, Info("main", "json_saved"))
                     /\ pc' = "report"
                     /\ UNCHANGED exc
                [] outcome = "open_fails" ->
                     /\ Raise("OSError", "main", "json_io", NoResponse, "")
                     /\ UNCHANGED <<files, log>>
                [] outcome = "write_fails" ->
                     /\ files' = [files EXCEPT !.json = [state |-> "partial", content |-> <<>>]]
                     /\ Raise("OSError", "main", "json_io", NoResponse, "")
                     /\ UNCHANGED log
    /\ UNCHANGED <<entry, args, component_name, component_id, out_csv, out_json, components,
                   fetched, served, target, retval, subscribers, requests>>

\* main: `if not subscribers: ... else: ...`, then the normal return.
Report ==
    /\ pc = "report"
    /\ log' = IF subscribers = <<>>
              THEN Append(log, Info("main", "none_found"))
              ELSE log \o <<Info("main", "summary"), Info("main", "None")>>
                       \o [k \in DOMAIN subscribers |-> Info("main", "subscriber")]
    /\ pc' = "returned"
    /\ UNCHANGED <<entry, args, component_name, component_id, out_csv, out_json, components,
                   fetched, served, target, retval, subscribers, requests, files, exc>>

\* main: the except clause; an exception it does not catch leaves main.
HandleException ==
    /\ pc = "except"
    /\ IF Catches(exc.kind)
       THEN /\ log' = Append(log, [level |-> "error", function |-> "main",
                                   message |-> exc.what])
            /\ pc' = "returned"
       ELSE /\ pc' = "propagated"
            /\ UNCHANGED log
    /\ UNCHANGED <<entry, args, component_name, component_id, out_csv, out_json, components,
                   fetched, served, target, retval, subscribers, requests, files, exc>>

Next ==
    \/ Dispatch
    \/ MainEnter
    \/ GetComponentIdFromName
    \/ AssignComponentId
    \/ GetSubscribersForComponent
    \/ AssignSubscribers
    \/ WriteCsv
    \/ WriteJson
    \/ Report
    \/ HandleException

Spec == Init /\ [][Next]_vars

\* ------------------------------------------------------------- claims
SubscriberRequests == SelectSeq(requests, LAMBDA r : r.resource = "subscribers")
ComponentRequests == SelectSeq(requests, LAMBDA r : r.resource = "components")
FieldSet == {"id", "email", "created_at", "mode", "phone_number"}
Success2xx(status) == status >= 200 /\ status <= 299

\* A subscriber whose `components` collection contains the id.
HasComponent(s, cid) ==
    "components" \in DOMAIN s /\ \E j \in DOMAIN s.components : s.components[j] = cid
Restricted(subs, cid) == SelectSeq(subs, LAMBDA s : HasComponent(s, cid))

\* C1: the filter result is the fetched sequence restricted to the subscribers
\* whose `components` contains the target id, in the input's order, one record
\* per matching subscriber; a subscriber without `components` never appears.
C1_FilterIsRestriction ==
    pc = "fetch_ret" =>
        LET src == Restricted(fetched, target)
        IN /\ Len(retval) = Len(src)
           /\ \A k \in DOMAIN src : retval[k] = ProjectSubscriber(src[k])
           /\ \A k \in DOMAIN retval :
                \E i \in DOMAIN fetched :
                    /\ "components" \in DOMAIN fetched[i]
                    /\ retval[k].id = fetched[i].id

\* Two matching subscribers around one that has no `components`, the first
\* holding the target id twice.
C1_Witness ==
    /\ pc = "fetch_ret"
    /\ target = "c1"
    /\ Len(fetched) = 3
    /\ fetched[1].id = "s2" /\ fetched[2].id = "s3" /\ fetched[3].id = "s1"
    /\ Len(retval) = 2
    /\ retval[1].id = "s2" /\ retval[2].id = "s1"

RECURSIVE Concat(_)
Concat(pages) == IF pages = <<>> THEN <<>> ELSE Head(pages) \o Concat(Tail(pages))
\* The page a request asks for: the first one when it names none.
PageAsked(r) == IF r.page = NoPage THEN 0 ELSE r.page

\* C2: against a service holding k non-empty pages, k+1 subscriber requests are
\* made, for pages 0..k, and the filter is handed the concatenation of the pages.
C2_CollectsEveryPage ==
    pc = "fetch_ret" =>
        /\ Len(SubscriberRequests) = Len(served) + 1
        /\ \A n \in DOMAIN SubscriberRequests : PageAsked(SubscriberRequests[n]) = n - 1
        /\ fetched = Concat(served)

SubscribersFetched == \E i \in DOMAIN requests :
    requests[i].resource = "subscribers" /\ requests[i].status = 200
FilteredEmpty == SubscribersFetched /\ pc # "fetch_ret" /\ subscribers = <<>>

\* C3: when the filtered list is empty, neither output file is opened or created.
C3_NoFilesWhenEmpty ==
    FilteredEmpty => files.csv.state = "absent" /\ files.json.state = "absent"

ResolutionFailed ==
    \/ exc.origin = "get_component_id_from_name"
    \/ \E i \in DOMAIN requests :
         requests[i].resource = "components" /\ ~Success2xx(requests[i].status)
FetchFailed ==
    \/ exc.origin = "get_subscribers_for_component"
    \/ \E i \in DOMAIN requests :
         requests[i].resource = "subscribers" /\ ~Success2xx(requests[i].status)

\* C4: after a failed resolution or a failed subscriber fetch no output file is
\* opened or written, and after a failed resolution no subscriber request is made.
C4_NoExportAfterFailure ==
    /\ (ResolutionFailed \/ FetchFailed) =>
          files.csv.state = "absent" /\ files.json.state = "absent"
    /\ ResolutionFailed => SubscriberRequests = <<>>

C4_Witness ==
    /\ pc = "returned"
    /\ exc.what = "not_found"
    /\ Truthy(out_csv) /\ Truthy(out_json)
    /\ files.csv.state = "absent" /\ files.json.state = "absent"

SameLetter(x, y) ==
    \/ x = y
    \/ x >= 65 /\ x <= 90 /\ y = x + 32
    \/ y >= 65 /\ y <= 90 /\ x = y + 32
EqualIgnoringCase(a, b) == Len(a) = Len(b) /\ \A i \in DOMAIN a : SameLetter(a[i], b[i])
Matching == {i \in DOMAIN components : EqualIgnoringCase(components[i].name, component_name)}

\* C6: resolution returns the id of the first listed component whose name equals
\* the query ignoring case, and raises not-found exactly when none matches.
C6_FirstMatchIgnoringCase ==
    /\ pc = "resolve_ret" =>
          /\ Matching # {}
          /\ \E i \in Matching : (\A j \in Matching : i <= j) /\ retval = components[i].id
    /\ exc.what = "not_found" => Matching = {}
    /\ (exc.origin = "get_component_id_from_name" /\ requests[Len(requests)].status = 200) =>
          exc.what = "not_found" /\ exc.kind = "ValueError"

\* "api" (or "API") asked for, two components match with different ids, the
\* first of them spelled differently from the query.
C6_Witness ==
    /\ pc = "resolve_ret"
    /\ Matching = {1, 2}
    /\ components[1].name # component_name
    /\ components[1].id # components[2].id
    /\ retval = components[1].id

\* C7: every record the filter produces has exactly the five keys, each carrying
\* the source's value when the source has the key and None otherwise; other
\* source fields are dropped and no error is raised.
C7_RecordsAreProjections ==
    pc = "fetch_ret" =>
        LET src == Restricted(fetched, target)
        IN /\ exc = NoExc
           /\ Len(retval) = Len(src)
           /\ \A k \in DOMAIN retval :
                /\ DOMAIN retval[k] = FieldSet
                /\ \A f \in FieldSet :
                     retval[k][f] = IF f \in DOMAIN src[k] THEN src[k][f] ELSE None

\* A record made from a subscriber lacking three of the keys, and one made from
\* a subscriber carrying a field that is not kept.
C7_Witness ==
    /\ pc = "fetch_ret"
    /\ \E k \in DOMAIN retval :
         retval[k].id = "s1" /\ retval[k].email = "a@x.com" /\ retval[k].created_at = None
    /\ \E i \in DOMAIN fetched :
         "quarantined_at" \in DOMAIN fetched[i] /\ HasComponent(fetched[i], target)

OriginOf(resource) ==
    IF resource = "components" THEN "get_component_id_from_name"
    ELSE "get_subscribers_for_component"
\* A response that made its operation fail with an error carrying its status and text.
FailedWith(r) ==
    /\ pc \in {"except", "returned"}
    /\ exc.kind = "Exception" /\ exc.what = "http"
    /\ exc.origin = OriginOf(r.resource)
    /\ exc.status = r.status /\ exc.text = r.text
NoRequestAfter(i) == i = Len(requests)

\* C8 as stated: a non-2xx response fails its operation and ends the requests;
\* no 2xx response is treated as a failure.
C8_Non2xxFailsOnly ==
    /\ \A i \in DOMAIN requests :
          (requests[i].status # NoResponse /\ ~Success2xx(requests[i].status)) =>
              FailedWith(requests[i]) /\ NoRequestAfter(i)
    /\ exc.what = "http" => ~Success2xx(requests[Len(requests)].status)

\* C8 amended: a response whose status is not 200 fails its operation with an
\* error carrying the status and the body, and ends the requests; no 200
\* response is treated as a failure.
C8_Non200Fails ==
    /\ \A i \in DOMAIN requests :
          (requests[i].status # NoResponse /\ requests[i].status # 200) =>
              FailedWith(requests[i]) /\ NoRequestAfter(i)
    /\ exc.what = "http" => requests[Len(requests)].status # 200

C8_Witness ==
    /\ pc = "returned"
    /\ Len(requests) = 2
    /\ requests[2].status = 201 /\ requests[2].text = "denied"
    /\ exc.what = "http" /\ exc.status = 201 /\ exc.text = "denied"

FilteredNonEmpty == pc \in {"csv", "json", "report", "returned", "except"} /\ subscribers # <<>>

\* C9: with a non-empty filtered result, an exporter runs only if its path was
\* supplied, the CSV export is over before the JSON export starts, a failed CSV
\* write leaves the JSON file unopened, and a failed JSON write leaves the CSV
\* file in place.
C9_ExportOrder ==
    FilteredNonEmpty =>
        /\ files.csv.state # "absent" => Truthy(out_csv)
        /\ files.json.state # "absent" => Truthy(out_json)
        /\ files.json.state # "absent" => (~Truthy(out_csv) \/ files.csv.state = "complete")
        /\ pc = "csv" => files.json.state = "absent"
        /\ exc.what = "csv_io" => files.json.state = "absent"
        /\ (exc.what = "json_io" /\ Truthy(out_csv)) =>
              files.csv = [state |-> "complete", content |-> CsvContent(subscribers)]

C9_Witness ==
    /\ pc = "returned"
    /\ Len(subscribers) = 2
    /\ exc.what = "json_io"
    /\ files.csv.state = "complete" /\ Len(files.csv.content) = 3
    /\ files.json.state = "partial"

\* C10: the components request is made only when a name and no id is supplied;
\* a supplied id is the filter target unchanged and any name is ignored; the
\* fetch runs at most once, once in a successful run, with the target fixed.
C10_ResolveOnlyWithoutId ==
    /\ ComponentRequests # <<>> =>
          TruthyName(args.component_name) /\ ~Truthy(args.component_id)
    /\ Truthy(args.component_id) =>
          /\ pc # "resolve"
          /\ ComponentRequests = <<>>
          /\ SubscriberRequests # <<>> => target = args.component_id
    /\ Len(SubscriberRequests) <= 1 /\ Len(ComponentRequests) <= 1
    /\ (pc = "returned" /\ exc = NoExc) => Len(SubscriberRequests) = 1
    /\ SubscriberRequests # <<>> =>
          /\ target = component_id
          /\ ComponentRequests # <<>> =>
                requests[1].resource = "components" /\ requests[1].status = 200

C10_Witness ==
    /\ pc = "returned" /\ exc = NoExc
    /\ entry = "call"
    /\ TruthyName(args.component_name) /\ args.component_id = "c2"
    /\ target = "c2"
    /\ subscribers # <<>>

====
